---- MODULE Spec2Model ----
(***************************************************************************)
(* Dataset builders of the particle-emission-point repository:             *)
(*   src/src/merge_timeseries_dataset.py  (windowed time-series dataset)   *)
(*   src/src/merge_aggregated_dataset.py  (per-scenario statistics)        *)
(*                                                                         *)
(* Numbers.  Sensor readings are small integers.  Values produced by       *)
(* floating-point arithmetic (z-scores, means, standard deviations) are    *)
(* kept in hundredths (fixed point, rounded towards minus infinity).       *)
(* A missing value (NaN) is a cell of its own kind.                        *)
(***************************************************************************)
EXTENDS Integers, Sequences, FiniteSets, TLC

\* ------------------------------------------------------------------------
\* Program constants (merge_timeseries_dataset.py lines 10-11)
WINDOW_SIZE == 30
STRIDE == 10

\* Bounds of the explored inputs
MaxRows == 6        \* rows of a matrix handed to create_windows directly
MaxCols == 2        \* columns of such a matrix
MaxWindow == 3      \* window_size argument of create_windows
MaxStride == 3      \* stride argument of create_windows
MaxCatalog == 2     \* rows of a metadata catalog handed to load_metadata
MaxScenarios == 4   \* scenario directories visited in one pipeline run

all_emission_points == <<"E1", "E2", "E3">>
EPs == {all_emission_points[i] : i \in 1..Len(all_emission_points)}
Tags == {"s1", "s2"}
Winds == {1, 2}

\* ------------------------------------------------------------------------
\* Cells of a CSV file / values of a DataFrame.
\*   t = "num": the number v;  t = "txt": the text s, p = it carries
\*   surrounding whitespace;  t = "nan": empty cell / missing value.
Num(v) == [t |-> "num", v |-> v, s |-> "", p |-> FALSE]
Txt(s) == [t |-> "txt", v |-> 0, s |-> s, p |-> FALSE]
Padded(s) == [t |-> "txt", v |-> 0, s |-> s, p |-> TRUE]
NaN == [t |-> "nan", v |-> 0, s |-> "", p |-> FALSE]

\* Outcome of a call that may raise
Ok(x) == [ok |-> TRUE, val |-> x, err |-> ""]
Raise(e) == [ok |-> FALSE, val |-> <<>>, err |-> e]

Min(a, b) == IF a < b THEN a ELSE b

RECURSIVE Flatten(_)
\* numpy ndarray.flatten(): row-major concatenation of the rows
Flatten(rows) ==
    IF rows = <<>> THEN <<>> ELSE Head(rows) \o Flatten(Tail(rows))

\* Slice with the start taken one row late
Slice_late(data, i, window_size) ==
    SubSeq(data, i + 2, IF i + window_size + 1 < Len(data)
                        THEN i + window_size + 1 ELSE Len(data))

\* data[i:i+window_size] with a 0-based start i (numpy slicing clips at the end)
Slice(data, i, window_size) ==
    SubSeq(data, i + 1, Min(i + window_size, Len(data)))

RECURSIVE WindowsFrom(_, _, _, _, _, _)
\* the loop of create_windows from start index i, range() stop `stop`
WindowsFrom(data, label, window_size, stride, i, stop) ==
    IF i >= stop THEN <<>>
    ELSE LET window == Slice(data, i, window_size)
             rest == WindowsFrom(data, label, window_size, stride, i + stride, stop)
         IN IF Len(window) = window_size
            THEN <<[x |-> Flatten(window), label |-> label]>> \o rest
            ELSE rest

\* create_windows with range() stopping one start index early
create_windows_short(data, label, window_size, stride) ==
    WindowsFrom(data, label, window_size, stride, 0, Len(data) - window_size)

\* create_windows(data, label, window_size, stride): the yielded pairs
\* (window.flatten(), label), in the order the generator yields them.
create_windows(data, label, window_size, stride) ==
    WindowsFrom(data, label, window_size, stride, 0, Len(data) - window_size + 1)

\* ------------------------------------------------------------------------
\* Sensor files.  A file is described by
\*   exists   os.path.isfile(csv_path)
\*   heads    number of header lines: the last one names the columns, the
\*            ones before it give units (a file of the simulator has 2)
\*   rows     number of data lines
\*   sensors  number of sensor columns
\*   mass     the file has a trailing "mass" column
\*   pad      the column names carry surrounding whitespace
\*   odd      kind of the cell in data line 1, sensor column 1:
\*            "num" (a number like the others), "nan" (empty), "txt" (text)
File(heads, rows, sensors, mass, pad, odd) ==
    [exists |-> TRUE, heads |-> heads, rows |-> rows, sensors |-> sensors,
     mass |-> mass, pad |-> pad, odd |-> odd]
NoFile ==
    [exists |-> FALSE, heads |-> 0, rows |-> 0, sensors |-> 0,
     mass |-> FALSE, pad |-> FALSE, odd |-> "num"]
Plain(rows, sensors) == File(2, rows, sensors, FALSE, FALSE, "num")

\* the reading of sensor c at time step r (1-based); the readings of the
\* first time step differ from each other and from the time 0
Reading(r, c) == ((r - 1) * (c + 1) + c + (r \div 4)) % 5

Name(f, s) == IF f.pad THEN Padded(s) ELSE Txt(s)

UnitsLine(f) ==
    <<Txt("s")>> \o [c \in 1..f.sensors |-> Txt("kg")]
        \o (IF f.mass THEN <<Txt("kg")>> ELSE <<>>)
NamesLine(f) ==
    <<Name(f, "Time")>> \o [c \in 1..f.sensors |-> Name(f, "d" \o ToString(c))]
        \o (IF f.mass THEN <<Name(f, "mass")>> ELSE <<>>)
DataCell(f, r, c) ==
    IF r = 1 /\ c = 1 /\ f.odd = "nan" THEN NaN
    ELSE IF r = 1 /\ c = 1 /\ f.odd = "txt" THEN Txt("abc")
    ELSE Num(Reading(r, c))
DataLine(f, r) ==
    <<Num(r - 1)>> \o [c \in 1..f.sensors |-> DataCell(f, r, c)]
        \o (IF f.mass THEN <<Num(100 + r)>> ELSE <<>>)

\* the lines of the file, each a sequence of cells
FileLines(f) ==
    [h \in 1..f.heads |-> IF h = f.heads THEN NamesLine(f) ELSE UnitsLine(f)]
        \o [r \in 1..f.rows |-> DataLine(f, r)]

\* pd.read_csv(path, skiprows=1): the first line is skipped, the next one
\* names the columns, the others are the data; nothing left to take the
\* names from raises EmptyDataError.
read_csv_skip1(lines) ==
    IF Len(lines) < 2 THEN Raise("EmptyDataError: No columns to parse from file")
    ELSE Ok([columns |-> lines[2], rows |-> SubSeq(lines, 3, Len(lines))])

\* str.strip() of a column name
Strip(c) == [c EXCEPT !.p = FALSE]

\* positions (in order, from i on) of the columns not named `name`
RECURSIVE ColumnsExcept(_, _, _)
ColumnsExcept(columns, name, i) ==
    IF i > Len(columns) THEN <<>>
    ELSE (IF columns[i] # name THEN <<i>> ELSE <<>>) \o ColumnsExcept(columns, name, i + 1)

\* the columns idx of a table's rows
Project(rows, idx) ==
    [r \in 1..Len(rows) |-> [k \in 1..Len(idx) |-> rows[r][idx[k]]]]

\* ------------------------------------------------------------------------
\* Integer square root (floor), by bisection
RECURSIVE Bisect(_, _, _)
Bisect(n, lo, hi) ==
    IF hi - lo <= 1 THEN lo
    ELSE LET mid == (lo + hi) \div 2
         IN IF mid * mid <= n THEN Bisect(n, mid, hi) ELSE Bisect(n, lo, mid)
\* (the root of a 32-bit integer is below 46341, which keeps mid * mid in range)
ISqrt(n) == IF n <= 0 THEN 0 ELSE Bisect(n, 0, Min(n + 1, 46341))

RECURSIVE SumSeq(_)
SumSeq(s) == IF s = <<>> THEN 0 ELSE Head(s) + SumSeq(Tail(s))

\* the numbers of one column, missing values left out
ColumnValues(X, k) ==
    LET cells == [r \in 1..Len(X) |-> X[r][k]]
        nums == SelectSeq(cells, LAMBDA c : c.t = "num")
    IN [i \in 1..Len(nums) |-> nums[i].v]

\* z-score of x in a column with n values, sum S and sum of squares Q:
\* (x - mean) / std with the population std, that is a / sqrt(d) for
\* a = n*x - S and d = n*Q - S*S; a zero std scales by 1 (sklearn
\* _handle_zeros_in_scale).  The result is the floor of 100 * a / sqrt(d):
\* for a >= 0 the floor of the root of 10000*a*a/d, for a < 0 minus the
\* ceiling of that root.
ZScore(x, n, S, Q) ==
    LET d == n * Q - S * S
        a == n * x - S
        sq == 10000 * a * a
        k == ISqrt(sq \div d)
    IN IF d = 0 THEN (100 * a) \div n
       ELSE IF a >= 0 THEN k
       ELSE IF k * k * d = sq THEN 0 - k
       ELSE 0 - (k + 1)

\* StandardScaler().fit_transform(X): validation (check_array) raises on a
\* cell that is no number, on an empty sample and on no feature; missing
\* values are ignored by fit and kept by transform.
fit_transform(X, ncols) ==
    IF \E r \in 1..Len(X) : \E k \in 1..ncols : X[r][k].t = "txt"
    THEN Raise("ValueError: could not convert string to float")
    ELSE IF Len(X) = 0
    THEN Raise("ValueError: Found array with 0 sample(s)")
    ELSE IF ncols = 0
    THEN Raise("ValueError: Found array with 0 feature(s)")
    ELSE LET vals == [k \in 1..ncols |-> ColumnValues(X, k)]
             S == [k \in 1..ncols |-> SumSeq(vals[k])]
             Q == [k \in 1..ncols |->
                     SumSeq([i \in 1..Len(vals[k]) |-> vals[k][i] * vals[k][i]])]
         IN Ok([r \in 1..Len(X) |-> [k \in 1..ncols |->
                 IF X[r][k].t = "nan" THEN NaN
                 ELSE Num(ZScore(X[r][k].v, Len(vals[k]), S[k], Q[k]))]])

\* ------------------------------------------------------------------------
\* Time-series pipeline, the body of the try block for one sensor file

\* lines 50-59: read, strip the names, drop "mass", scale the non-Time
\* columns; the result is df[sensor_cols].values
normalize(lines) ==
    LET rd == read_csv_skip1(lines)
    IN IF ~rd.ok THEN rd
       ELSE LET stripped == [i \in 1..Len(rd.val.columns) |-> Strip(rd.val.columns[i])]
                kept == ColumnsExcept(stripped, Txt("mass"), 1)
                columns == [k \in 1..Len(kept) |-> stripped[kept[k]]]
                rows == Project(rd.val.rows, kept)
                sensor_cols == ColumnsExcept(columns, Txt("Time"), 1)
            IN fit_transform(Project(rows, sensor_cols), Len(sensor_cols))

\* str() of a matrix value, as np.append(x_flat, label) makes of it when it
\* joins the numbers and the label in one array of strings
CellStr(c) == IF c.t = "nan" THEN "nan" ELSE ToString(c.v)

\* line 63: np.append(x_flat, label)
LabeledRow(w) == [i \in 1..Len(w.x) |-> CellStr(w.x[i])] \o <<w.label>>

\* lines 50-63: the list `rows` of one scenario, or the exception raised
scenario_rows(lines, classe) ==
    LET data == normalize(lines)
    IN IF ~data.ok THEN data
       ELSE LET ws == create_windows(data.val, classe, WINDOW_SIZE, STRIDE)
            IN Ok([k \in 1..Len(ws) |-> LabeledRow(ws[k])])

\* line 67: the column names of a batch
BatchColumns(rows) ==
    [i \in 1..(Len(rows[1]) - 1) |-> "f" \o ToString(i - 1)] \o <<"classe">>

\* to_csv that writes the column names with every batch
to_csv_append_header_always(file, rows, header) ==
    file \o <<BatchColumns(rows)>> \o rows

\* to_csv opened with mode='w': the batch replaces the file
to_csv_append_truncating(file, rows, header) ==
    (IF header THEN <<BatchColumns(rows)>> ELSE <<>>) \o rows

\* line 69: df_batch.to_csv(OUTPUT_PATH, mode='a', header=not header_written)
to_csv_append(file, rows, header) ==
    file \o (IF header THEN <<BatchColumns(rows)>> ELSE <<>>) \o rows

\* ------------------------------------------------------------------------
\* Metadata catalog: the rows of metadata.xlsx, each [tag, ep, wind]
\* (wind stands for the attribute columns).
Key(row) == <<row.tag, row.ep>>
Attrs(row) == [wind |-> row.wind]

\* df.duplicated(subset=key, keep=False)
duplicate_mask(catalog) ==
    [i \in 1..Len(catalog) |->
        \E j \in 1..Len(catalog) : j # i /\ Key(catalog[j]) = Key(catalog[i])]

\* df.drop_duplicates(subset=key, keep='first')
RECURSIVE drop_duplicates(_)
drop_duplicates(catalog) ==
    IF catalog = <<>> THEN <<>>
    ELSE LET init == SubSeq(catalog, 1, Len(catalog) - 1)
             row == catalog[Len(catalog)]
         IN IF \E j \in 1..Len(init) : Key(init[j]) = Key(row)
            THEN drop_duplicates(init)
            ELSE Append(drop_duplicates(init), row)

\* df.set_index(key).to_dict(orient="index"): needs a unique index
to_dict_index(catalog) ==
    IF \E i \in 1..Len(catalog) : duplicate_mask(catalog)[i]
    THEN Raise("ValueError: DataFrame index must be unique for orient='index'")
    ELSE Ok([k \in {Key(catalog[i]) : i \in 1..Len(catalog)} |->
               Attrs(catalog[CHOOSE i \in 1..Len(catalog) : Key(catalog[i]) = k])])

\* load_metadata of merge_timeseries_dataset.py; printed: what it prints
load_metadata_timeseries(catalog) ==
    [ret |-> to_dict_index(catalog), printed |-> <<>>]

\* load_metadata of merge_aggregated_dataset.py
load_metadata_aggregated(catalog) ==
    LET mask == duplicate_mask(catalog)
        any == \E i \in 1..Len(catalog) : mask[i]
        dups == SelectSeq(catalog,
                  LAMBDA row : \E i \in 1..Len(catalog) : mask[i] /\ catalog[i] = row)
    IN [ret |-> to_dict_index(IF any THEN drop_duplicates(catalog) ELSE catalog),
        printed |-> IF any THEN <<[msg |-> "Warning: Duplicate combinations found",
                                   path |-> <<>>, text |-> "", rows |-> dups]>>
                    ELSE <<>>]

\* ------------------------------------------------------------------------
\* Aggregated pipeline: extract_aggregated_features

RECURSIVE MaxSeq(_)
MaxSeq(s) ==
    IF Len(s) = 1 THEN s[1]
    ELSE LET m == MaxSeq(Tail(s)) IN IF s[1] >= m THEN s[1] ELSE m
RECURSIVE MinSeq(_)
MinSeq(s) ==
    IF Len(s) = 1 THEN s[1]
    ELSE LET m == MinSeq(Tail(s)) IN IF s[1] <= m THEN s[1] ELSE m

\* pd.to_numeric(column, errors='coerce') applied to every cell
to_numeric(rows) ==
    [r \in 1..Len(rows) |-> [k \in 1..Len(rows[r]) |->
        IF rows[r][k].t = "num" THEN rows[r][k] ELSE NaN]]

\* mean, std (sample, ddof=1), max, min of one column, in hundredths,
\* missing values skipped; in this order
column_stats(rows, k) ==
    LET v == ColumnValues(rows, k)
        n == Len(v)
        S == SumSeq(v)
        Q == SumSeq([i \in 1..n |-> v[i] * v[i]])
    IN << IF n = 0 THEN NaN ELSE Num((100 * S) \div n),
          IF n <= 1 THEN NaN
          ELSE Num(ISqrt((10000 * (n * Q - S * S)) \div (n * (n - 1)))),
          IF n = 0 THEN NaN ELSE Num(100 * MaxSeq(v)),
          IF n = 0 THEN NaN ELSE Num(100 * MinSeq(v)) >>

\* extract_aggregated_features(devc_path): the values of the returned
\* Series (its four entries are named <columns name>_mean, _std, _max, _min)
extract_aggregated_features(lines) ==
    LET rd == read_csv_skip1(lines)                       \* line 43
    IN IF ~rd.ok THEN rd
       ELSE IF Len(rd.val.rows) = 0                       \* line 44: df.iloc[0]
       THEN Raise("IndexError: single positional indexer is out-of-bounds")
       ELSE LET columns == rd.val.rows[1]                 \* line 44
                body == to_numeric(Tail(rd.val.rows))     \* lines 45-46
                kept == ColumnsExcept(columns, Txt("Time"), 1)  \* line 49
                df == Project(body, kept)
            IN IF Len(kept) = 0                           \* line 54: .iloc[0]
               THEN Raise("IndexError: single positional indexer is out-of-bounds")
               ELSE Ok(column_stats(df, 1))               \* lines 52-54

\* ------------------------------------------------------------------------
\* What a scenario directory may hold

\* in a time-series run
TimeseriesFiles ==
    { NoFile,
      File(0, 0, 0, FALSE, FALSE, "num"),            \* an empty file
      Plain(0, 1),                                   \* headers, no data line
      Plain(WINDOW_SIZE - 1, 0),                     \* no sensor column
      Plain(WINDOW_SIZE - 1, 1),                     \* one line short of a window
      Plain(WINDOW_SIZE, 1),                         \* exactly one window
      Plain(WINDOW_SIZE + STRIDE, 2),                \* two windows, two sensors
      File(2, WINDOW_SIZE, 1, FALSE, FALSE, "txt"),  \* a text cell
      File(2, WINDOW_SIZE, 1, TRUE, TRUE, "nan") }   \* mass, padded names, empty cell

\* in an aggregated run
AggregatedFiles ==
    { NoFile, File(0, 0, 0, FALSE, FALSE, "num"), Plain(0, 1), Plain(3, 1), Plain(4, 2) }

\* the try blocks' computations on these files, evaluated once per file
TimeseriesRows ==
    [f \in TimeseriesFiles |-> [classe \in EPs |-> scenario_rows(FileLines(f), classe)]]
AggregatedFeatures ==
    [f \in AggregatedFiles |-> extract_aggregated_features(FileLines(f))]

\* ------------------------------------------------------------------------
\* One pass of the inner loop of build_dataset_timeseries (lines 36-75) for
\* the directory `tag` of class `classe` holding file f, from the run state
\* st = [header_written, out, log, pbar, branch]; branch names the path
\* taken by the latest pass.
Entry(msg, classe, tag, text) ==
    [msg |-> msg, path |-> <<classe, tag>>, text |-> text, rows |-> <<>>]

\* timeseries_pass with the flag raised before the batch is built, so that
\* a scenario that raises leaves it set
timeseries_pass_flag_early(st, meta, classe, tag, f) ==
    IF ~f.exists
    THEN [st EXCEPT !.pbar = @ + 1, !.branch = "nofile"]
    ELSE IF <<tag, classe>> \notin DOMAIN meta
    THEN [st EXCEPT !.pbar = @ + 1, !.branch = "nokey"]
    ELSE LET r == TimeseriesRows[f][classe]
         IN IF ~r.ok
            THEN [st EXCEPT !.log = Append(@, Entry("Erro ao processar", classe, tag, r.err)),
                            !.header_written = TRUE,
                            !.pbar = @ + 1, !.branch = "error"]
            ELSE IF r.val # <<>>
            THEN [st EXCEPT !.out = to_csv_append(@, r.val, ~st.header_written),
                            !.header_written = TRUE,
                            !.pbar = @ + 1, !.branch = "written"]
            ELSE [st EXCEPT !.pbar = @ + 1, !.branch = "empty"]

timeseries_pass(st, meta, classe, tag, f) ==
    IF ~f.exists                                               \* lines 40-42
    THEN [st EXCEPT !.pbar = @ + 1, !.branch = "nofile"]
    ELSE IF <<tag, classe>> \notin DOMAIN meta                 \* lines 44-47
    THEN [st EXCEPT !.pbar = @ + 1, !.branch = "nokey"]
    ELSE LET r == TimeseriesRows[f][classe]                    \* lines 49-63
         IN IF ~r.ok                                           \* lines 72-73
            THEN [st EXCEPT !.log = Append(@, Entry("Erro ao processar", classe, tag, r.err)),
                            !.pbar = @ + 1, !.branch = "error"]
            ELSE IF r.val # <<>>                               \* lines 65-70
            THEN [st EXCEPT !.out = to_csv_append(@, r.val, ~st.header_written),
                            !.header_written = TRUE,
                            !.pbar = @ + 1, !.branch = "written"]
            ELSE [st EXCEPT !.pbar = @ + 1, !.branch = "empty"]

\* One pass of the inner loop of build_dataset_agregado (lines 77-104);
\* st = [data_rows, log, pbar, branch]
aggregated_pass(st, meta, classe, tag, f) ==
    IF ~f.exists                                               \* lines 81-83
    THEN [st EXCEPT !.pbar = @ + 1, !.branch = "nofile"]
    ELSE IF <<tag, classe>> \notin DOMAIN meta                 \* lines 85-89
    THEN [st EXCEPT !.log = Append(@, Entry("Metadata not found for", classe, tag, "")),
                    !.pbar = @ + 1, !.branch = "nokey"]
    ELSE LET r == AggregatedFeatures[f]                        \* line 92
         IN IF ~r.ok                                           \* lines 101-102
            THEN [st EXCEPT !.log = Append(@, Entry("Error processing", classe, tag, r.err)),
                            !.pbar = @ + 1, !.branch = "error"]
            ELSE [st EXCEPT !.data_rows = Append(@, [stats |-> r.val,     \* lines 93-100
                                meta |-> meta[<<tag, classe>>],
                                classe |-> classe, tag |-> tag]),
                            !.pbar = @ + 1, !.branch = "written"]

\* ------------------------------------------------------------------------
\* Explored inputs

\* matrices handed to create_windows: R x N, every cell different
Matrix(R, N) == [r \in 1..R |-> [c \in 1..N |-> Num((r - 1) * N + c)]]
WindowInputs ==
    {[data |-> Matrix(R, N), label |-> l, window_size |-> w, stride |-> s] :
        R \in 0..MaxRows, N \in 1..MaxCols, l \in EPs,
        w \in 1..MaxWindow, s \in 1..MaxStride}

CatalogRows == [tag : Tags, ep : EPs, wind : Winds]
RECURSIVE SeqsUpTo(_, _)
SeqsUpTo(S, n) ==
    IF n = 0 THEN {<<>>}
    ELSE LET shorter == SeqsUpTo(S, n - 1)
         IN shorter \cup {Append(q, x) : q \in {p \in shorter : Len(p) = n - 1}, x \in S}
Catalogs == SeqsUpTo(CatalogRows, MaxCatalog)

Row(tag, ep, wind) == [tag |-> tag, ep |-> ep, wind |-> wind]
\* catalogs of the pipeline runs: s1 and s2 are catalogued under E1, s1 alone
\* under E2 and E3; the second catalog repeats the key (s1, E1)
CatalogUnique == <<Row("s1", "E1", 1), Row("s2", "E1", 2), Row("s1", "E2", 1), Row("s1", "E3", 2)>>
CatalogRepeated == <<Row("s1", "E1", 1), Row("s2", "E1", 2), Row("s1", "E1", 2), Row("s1", "E2", 1), Row("s1", "E3", 2)>>
PipelineCatalogs == {CatalogUnique, CatalogRepeated}

\* files handed to extract_aggregated_features directly (a file keeps at
\* least two data lines below the line promoted to header, or none at all)
FeatureFiles ==
    {File(h, r, n, m, FALSE, o) :
        h \in {0, 2, 3}, r \in {0, 2, 3, 4}, n \in 1..MaxCols,
        m \in BOOLEAN, o \in {"num", "nan", "txt"}}

\* ------------------------------------------------------------------------
\* State
VARIABLES
    mode,            \* the entry point under execution
    pc,              \* "start", "loop", "done" or "crashed"
    input,           \* the argument of the entry point (pipelines: the catalog)
    result,          \* what the entry point returned or raised
    metadata,        \* metadata / metadata_dict of the pipeline
    cls,             \* position of the outer loop in all_emission_points
    seen,            \* directories of the current class already listed
    header_written,  \* line 30 of merge_timeseries_dataset.py
    out,             \* lines of the output file
    log,             \* what was printed
    pbar,            \* sum of pbar.update(1)
    data_rows,       \* data_rows of build_dataset_agregado
    last,            \* history: the latest pass of the inner loop
    shadow           \* history: header_written and out of the same run with
                     \* the scenarios that raised left out of the input

vars == <<mode, pc, input, result, metadata, cls, seen, header_written, out,
          log, pbar, data_rows, last, shadow>>

None == [ok |-> TRUE, val |-> <<>>, err |-> ""]
NoPass ==
    [tag |-> "", classe |-> "", file |-> NoFile, branch |-> "none",
     wrote |-> 0, logged |-> 0, counted |-> 0, header_before |-> FALSE]

Idle ==
    /\ pc = "start"
    /\ result = None
    /\ metadata = <<>>
    /\ cls = 1
    /\ seen = {}
    /\ header_written = FALSE
    /\ out = <<>>
    /\ log = <<>>
    /\ pbar = 0
    /\ data_rows = <<>>
    /\ last = NoPass
    /\ shadow = [header_written |-> FALSE, out |-> <<>>]

Init ==
    /\ Idle
    /\ \/ mode = "create_windows" /\ input \in WindowInputs
       \/ mode \in {"load_metadata_timeseries", "load_metadata_aggregated"}
            /\ input \in Catalogs
       \/ mode = "extract_aggregated_features" /\ input \in FeatureFiles
       \/ mode \in {"build_dataset_timeseries", "build_dataset_agregado"}
            /\ input \in PipelineCatalogs

pipeline_vars == <<metadata, cls, seen, header_written, out, log, pbar,
                   data_rows, last, shadow>>

\* ------------------------------------------------------------------------
\* Calls of the functions on their own

CreateWindows ==
    /\ mode = "create_windows" /\ pc = "start"
    /\ result' = Ok(create_windows(input.data, input.label,
                                   input.window_size, input.stride))
    /\ pc' = "done"
    /\ UNCHANGED <<mode, input, pipeline_vars>>

LoadMetadataTimeseries ==
    /\ mode = "load_metadata_timeseries" /\ pc = "start"
    /\ LET m == load_metadata_timeseries(input)
       IN /\ result' = m.ret
          /\ log' = log \o m.printed
          /\ pc' = IF m.ret.ok THEN "done" ELSE "crashed"
    /\ UNCHANGED <<mode, input, metadata, cls, seen, header_written, out, pbar,
                   data_rows, last, shadow>>

LoadMetadataAggregated ==
    /\ mode = "load_metadata_aggregated" /\ pc = "start"
    /\ LET m == load_metadata_aggregated(input)
       IN /\ result' = m.ret
          /\ log' = log \o m.printed
          /\ pc' = IF m.ret.ok THEN "done" ELSE "crashed"
    /\ UNCHANGED <<mode, input, metadata, cls, seen, header_written, out, pbar,
                   data_rows, last, shadow>>

ExtractAggregatedFeatures ==
    /\ mode = "extract_aggregated_features" /\ pc = "start"
    /\ result' = extract_aggregated_features(FileLines(input))
    /\ pc' = IF result'.ok THEN "done" ELSE "crashed"
    /\ UNCHANGED <<mode, input, pipeline_vars>>

\* ------------------------------------------------------------------------
\* build_dataset_timeseries

\* lines 26-30: load the metadata, list the three class directories (a
\* missing one makes os.listdir raise), clear the flag
TimeseriesStart ==
    /\ mode = "build_dataset_timeseries" /\ pc = "start"
    /\ \E listable \in BOOLEAN :
         LET m == load_metadata_timeseries(input)
         IN IF ~m.ret.ok
            THEN /\ pc' = "crashed" /\ result' = m.ret
                 /\ UNCHANGED metadata
            ELSE IF ~listable
            THEN /\ pc' = "crashed" /\ result' = Raise("FileNotFoundError")
                 /\ metadata' = m.ret.val
            ELSE /\ pc' = "loop" /\ result' = result
                 /\ metadata' = m.ret.val
    /\ header_written' = FALSE
    /\ UNCHANGED <<mode, input, cls, seen, out, log, pbar, data_rows, last, shadow>>

\* lines 36-75: one pass of the inner loop, for a directory os.listdir has
\* not yet returned
TimeseriesScenario ==
    /\ mode = "build_dataset_timeseries" /\ pc = "loop"
    /\ cls <= Len(all_emission_points)
    /\ pbar < MaxScenarios
    /\ \E tag \in Tags \ seen : \E f \in TimeseriesFiles :
         LET classe == all_emission_points[cls]
             st == [header_written |-> header_written, out |-> out, log |-> log,
                    pbar |-> pbar, branch |-> last.branch]
             nx == timeseries_pass(st, metadata, classe, tag, f)
             sh == timeseries_pass([st EXCEPT !.header_written = shadow.header_written,
                                              !.out = shadow.out],
                                   metadata, classe, tag, f)
         IN /\ header_written' = nx.header_written
            /\ out' = nx.out
            /\ log' = nx.log
            /\ pbar' = nx.pbar
            /\ seen' = seen \cup {tag}
            /\ last' = [tag |-> tag, classe |-> classe,
                        file |-> IF nx.branch \in {"nofile", "nokey"} THEN NoFile ELSE f,
                        branch |-> nx.branch,
                        wrote |-> Len(nx.out) - Len(out),
                        logged |-> Len(nx.log) - Len(log),
                        counted |-> nx.pbar - pbar,
                        header_before |-> header_written]
            /\ shadow' = IF nx.branch = "error" THEN shadow
                         ELSE [header_written |-> sh.header_written, out |-> sh.out]
    /\ UNCHANGED <<mode, pc, input, result, metadata, cls, data_rows>>

\* lines 32-36: the listing of the class directory is exhausted
TimeseriesNextClass ==
    /\ mode = "build_dataset_timeseries" /\ pc = "loop"
    /\ cls <= Len(all_emission_points)
    /\ cls' = cls + 1
    /\ seen' = {}
    /\ UNCHANGED <<mode, pc, input, result, metadata, header_written, out, log,
                   pbar, data_rows, last, shadow>>

\* line 77
TimeseriesFinish ==
    /\ mode = "build_dataset_timeseries" /\ pc = "loop"
    /\ cls > Len(all_emission_points)
    /\ log' = Append(log, [msg |-> "Time series dataset saved incrementally to",
                           path |-> <<>>, text |-> "", rows |-> <<>>])
    /\ pc' = "done"
    /\ UNCHANGED <<mode, input, result, metadata, cls, seen, header_written, out,
                   pbar, data_rows, last, shadow>>

\* ------------------------------------------------------------------------
\* build_dataset_agregado

\* lines 65-69
AggregatedStart ==
    /\ mode = "build_dataset_agregado" /\ pc = "start"
    /\ LET m == load_metadata_aggregated(input)
       IN /\ log' = log \o m.printed
          /\ IF m.ret.ok
             THEN pc' = "loop" /\ metadata' = m.ret.val /\ result' = result
             ELSE pc' = "crashed" /\ metadata' = metadata /\ result' = m.ret
    /\ UNCHANGED <<mode, input, cls, seen, header_written, out, pbar, data_rows,
                   last, shadow>>

\* lines 77-104
AggregatedScenario ==
    /\ mode = "build_dataset_agregado" /\ pc = "loop"
    /\ cls <= Len(all_emission_points)
    /\ pbar < MaxScenarios
    /\ \E tag \in Tags \ seen : \E f \in AggregatedFiles :
         LET classe == all_emission_points[cls]
             st == [data_rows |-> data_rows, log |-> log, pbar |-> pbar,
                    branch |-> last.branch]
             nx == aggregated_pass(st, metadata, classe, tag, f)
         IN /\ data_rows' = nx.data_rows
            /\ log' = nx.log
            /\ pbar' = nx.pbar
            /\ seen' = seen \cup {tag}
            /\ last' = [tag |-> tag, classe |-> classe,
                        file |-> IF nx.branch \in {"nofile", "nokey"} THEN NoFile ELSE f,
                        branch |-> nx.branch,
                        wrote |-> Len(nx.data_rows) - Len(data_rows),
                        logged |-> Len(nx.log) - Len(log),
                        counted |-> nx.pbar - pbar,
                        header_before |-> FALSE]
    /\ UNCHANGED <<mode, pc, input, result, metadata, cls, header_written, out, shadow>>

\* lines 72-77: the class directory is absent or its listing is exhausted
AggregatedNextClass ==
    /\ mode = "build_dataset_agregado" /\ pc = "loop"
    /\ cls <= Len(all_emission_points)
    /\ cls' = cls + 1
    /\ seen' = {}
    /\ UNCHANGED <<mode, pc, input, result, metadata, header_written, out, log,
                   pbar, data_rows, last, shadow>>

\* the line of the aggregated CSV for one element of data_rows: the four
\* statistics, the metadata attributes, classe, tag
AggregatedLine(row) ==
    row.stats \o <<Num(row.meta.wind), Txt(row.classe), Txt(row.tag)>>
AggregatedColumns ==
    <<Txt("mean"), Txt("std"), Txt("max"), Txt("min"), Txt("wind"),
      Txt("classe"), Txt("tag")>>

\* lines 106-109: the whole table is written at the end (mode 'w')
AggregatedFinish ==
    /\ mode = "build_dataset_agregado" /\ pc = "loop"
    /\ cls > Len(all_emission_points)
    /\ out' = <<IF data_rows = <<>> THEN <<>> ELSE AggregatedColumns>>
                \o [i \in 1..Len(data_rows) |-> AggregatedLine(data_rows[i])]
    /\ log' = Append(log, [msg |-> "Aggregated dataset saved to",
                           path |-> <<>>, text |-> "", rows |-> <<>>])
    /\ pc' = "done"
    /\ UNCHANGED <<mode, input, result, metadata, cls, seen, header_written,
                   pbar, data_rows, last, shadow>>

Next ==
    \/ CreateWindows
    \/ LoadMetadataTimeseries
    \/ LoadMetadataAggregated
    \/ ExtractAggregatedFeatures
    \/ TimeseriesStart
    \/ TimeseriesScenario
    \/ TimeseriesNextClass
    \/ TimeseriesFinish
    \/ AggregatedStart
    \/ AggregatedScenario
    \/ AggregatedNextClass
    \/ AggregatedFinish

Spec == Init /\ [][Next]_vars

\* ========================================================================
\* Properties

Timeseries == mode = "build_dataset_timeseries"
Aggregated == mode = "build_dataset_agregado"
\* the latest pass read its sensor file (it got past both skips)
ReadFile == last.branch \in {"error", "empty", "written"}
\* the file of the latest pass is a regular simulator file: two header
\* lines, at least one sensor column, every cell a number
Regular(f) == f.exists /\ f.heads = 2 /\ f.sensors >= 1 /\ f.odd = "num"

IsPrefix(a, b) == Len(a) <= Len(b) /\ SubSeq(b, 1, Len(a)) = a
IsHeader(line) == line[Len(line)] = "classe"
ClassIndex(label) == CHOOSE i \in 1..Len(all_emission_points) : all_emission_points[i] = label

\* number of windows the specification states for R rows
WindowCount(R, w, s) == IF R >= w THEN (R - w) \div s + 1 ELSE 0

WindowCountHolds ==
    (mode = "create_windows" /\ pc = "done") =>
        Len(result.val) = WindowCount(Len(input.data), input.window_size, input.stride)

\* C1 (as amended): create_windows emits floor((R - w) / s) + 1 windows when
\* R >= w and none when R < w, for every R >= 0, w >= 1, s >= 1.  In
\* build_dataset_timeseries a regular file with 1 <= R < WINDOW_SIZE data
\* lines writes nothing (no row, no header) and logs nothing; a regular file
\* with R = 0 data lines writes nothing either, but the scaler rejects the
\* empty matrix and the scenario is logged as an error.
C1_WindowCount ==
    /\ WindowCountHolds
    /\ (Timeseries /\ ReadFile /\ Regular(last.file) /\ last.file.rows < WINDOW_SIZE) =>
          /\ last.wrote = 0
          /\ out = <<>> <=> ~last.header_before
          /\ IF last.file.rows >= 1
             THEN last.branch = "empty" /\ last.logged = 0
             ELSE last.branch = "error" /\ last.logged = 1

\* C1 as stated: ... and in every R < w case build_dataset_timeseries writes
\* nothing and logs no error.
C1_Original ==
    /\ WindowCountHolds
    /\ (Timeseries /\ ReadFile /\ Regular(last.file) /\ last.file.rows < WINDOW_SIZE) =>
          last.wrote = 0 /\ last.logged = 0

\* a file one line short of a window was read as the first file of the run
\* and left no trace
C1_Witness ==
    /\ Timeseries /\ last.branch = "empty"
    /\ last.file = Plain(WINDOW_SIZE - 1, 1)
    /\ out = <<>> /\ log = <<>>

\* C2: the k-th window (k = 0, 1, ...) yielded by create_windows is rows
\* [k*stride, k*stride + window_size) of the matrix, flattened row-major
\* (position t*N + c holds row k*stride + t, column c), has length
\* window_size * N and carries the label passed in; the starts increase
\* strictly and every window is full.
C2_WindowContent ==
    (mode = "create_windows" /\ pc = "done") =>
        \A k \in 1..Len(result.val) :
            LET win == result.val[k]
                N == Len(input.data[1])
                start == (k - 1) * input.stride
            IN /\ start + input.window_size <= Len(input.data)
               /\ Len(win.x) = input.window_size * N
               /\ win.label = input.label
               /\ \A t \in 0..(input.window_size - 1) : \A c \in 0..(N - 1) :
                    win.x[t * N + c + 1] = input.data[start + t + 1][c + 1]

\* two overlapping windows over a two-column matrix, with rows left over
C2_Witness ==
    /\ mode = "create_windows" /\ pc = "done"
    /\ Len(result.val) = 2
    /\ Len(input.data) = 6 /\ Len(input.data[1]) = 2
    /\ input.window_size = 3 /\ input.stride = 2

\* C3: in a run of build_dataset_timeseries that starts on an empty output
\* file, the file holds one header line if a non-empty batch was written and
\* none otherwise; the header is the first line, is written with the first
\* non-empty batch, names f0..f{K-1}, classe for K the vector length of that
\* batch, and every later batch appends data rows only.
C3_HeaderOnce ==
    Timeseries =>
        /\ header_written <=> out # <<>>
        /\ out # <<>> =>
              /\ Len(out) >= 2
              /\ out[1] = [i \in 1..(Len(out[2]) - 1) |-> "f" \o ToString(i - 1)]
                            \o <<"classe">>
              /\ \A i \in 2..Len(out) : ~IsHeader(out[i])
        /\ last.branch = "written" =>
              /\ out # <<>>
              /\ last.wrote = Len(TimeseriesRows[last.file][last.classe].val)
                                + (IF last.header_before THEN 0 ELSE 1)
        /\ last.branch # "written" => last.wrote = 0

\* a third scenario appends its batch after a batch of another width and a
\* scenario that wrote nothing
C3_Witness ==
    /\ Timeseries /\ pbar = 3
    /\ last.branch = "written" /\ last.header_before
    /\ Len(out[2]) # Len(out[Len(out)])
    /\ Len(out) = 1 + 1 + 2

\* C4: a scenario whose (scenario_id, emission_point) key is not in the
\* metadata contributes no row, the run goes on, and a diagnostic naming the
\* key is emitted, in build_dataset_timeseries and in build_dataset_agregado.
C4_Original ==
    ((Timeseries \/ Aggregated) /\ last.branch = "nokey") =>
        /\ last.wrote = 0
        /\ pc \in {"loop", "done"}
        /\ last.logged = 1
        /\ \E i \in 1..Len(log) :
              log[i].msg = "Metadata not found for" /\ log[i].path = <<last.classe, last.tag>>

\* C5: a scenario directory without particle_devc.csv contributes no row in
\* build_dataset_timeseries, is counted once by the progress counter, has a
\* diagnostic logged, and the run goes on.
C5_Original ==
    (Timeseries /\ last.branch = "nofile") =>
        /\ last.wrote = 0
        /\ last.counted = 1
        /\ pc \in {"loop", "done"}
        /\ last.logged = 1

\* C6: whichever scenarios raise while they are read, parsed, scaled or
\* windowed, build_dataset_timeseries goes on, logs each failure with the
\* file path and the error text, writes no row of a failing scenario, and
\* its output is the output of the same run without the failing scenarios.
C6_FailuresIsolated ==
    Timeseries =>
        /\ out = shadow.out
        /\ header_written = shadow.header_written
        /\ last.branch = "error" =>
              /\ last.wrote = 0 /\ last.logged = 1 /\ last.counted = 1
              /\ pc \in {"loop", "done"}
              /\ \E i \in 1..Len(log) :
                    /\ log[i].msg = "Erro ao processar"
                    /\ log[i].path = <<last.classe, last.tag>>
                    /\ log[i].text = TimeseriesRows[last.file][last.classe].err
                    /\ log[i].text # ""

\* the run ended after a scenario wrote, one raised and another wrote
C6_Witness ==
    /\ Timeseries /\ pc = "done" /\ pbar = 3
    /\ Len(log) = 2
    /\ last.branch = "written" /\ last.header_before

HasDuplicates(catalog) == \E i \in 1..Len(catalog) : duplicate_mask(catalog)[i]
FirstRow(catalog, k) ==
    catalog[CHOOSE i \in 1..Len(catalog) :
               Key(catalog[i]) = k /\ \A j \in 1..(i - 1) : Key(catalog[j]) # k]

\* C7: on a catalog that repeats a (scenario_id, emission_point) key,
\* load_metadata does not fail, maps the key to the attributes of its first
\* row and reports the duplicates, in the time-series pipeline as in the
\* aggregated one.
C7_Original ==
    (mode \in {"load_metadata_timeseries", "load_metadata_aggregated"}
        /\ pc # "start" /\ HasDuplicates(input)) =>
        /\ result.ok
        /\ DOMAIN result.val = {Key(input[i]) : i \in 1..Len(input)}
        /\ \A k \in DOMAIN result.val : result.val[k] = Attrs(FirstRow(input, k))
        /\ log # <<>>

\* C8: in the time-series pipeline a sensor file with a non-numeric cell in
\* a sensor column is not rejected: the cell becomes a missing value and the
\* scenario yields its floor((R - 30) / 10) + 1 rows.
C8_Original ==
    (Timeseries /\ ReadFile /\ last.file.heads = 2 /\ last.file.odd = "txt"
        /\ last.file.rows >= WINDOW_SIZE) =>
        /\ last.branch = "written"
        /\ last.wrote - (IF last.header_before THEN 0 ELSE 1)
              = WindowCount(last.file.rows, WINDOW_SIZE, STRIDE)

\* the statistics C9 states for a file: mean, std, max, min of each sensor
\* column over all its data lines
RECURSIVE ClaimedFrom(_, _, _)
ClaimedFrom(rows, c, n) ==
    IF c > n THEN <<>> ELSE column_stats(rows, c) \o ClaimedFrom(rows, c + 1, n)
ClaimedFeatures(f) ==
    LET data == [r \in 1..f.rows |-> [c \in 1..f.sensors |-> DataCell(f, r, c)]]
    IN ClaimedFrom(data, 1, f.sensors)

\* C9: for a file of two header lines and D data lines with a Time column
\* and N sensor columns, extract_aggregated_features names the columns by
\* the second line, keeps all D lines as data and returns mean, std, max and
\* min of each sensor column (4*N values), Time left out.
C9_Original ==
    (mode = "extract_aggregated_features" /\ pc # "start"
        /\ Regular(input) /\ ~input.mass /\ input.rows >= 2) =>
        /\ result.ok
        /\ Len(result.val) = 4 * input.sensors
        /\ result.val = ClaimedFeatures(input)

\* the lines of `file` that are data rows carry labels in class order
InClassOrder(file) ==
    \A i, j \in 1..Len(file) :
        (i < j /\ ~IsHeader(file[i]) /\ ~IsHeader(file[j])) =>
            ClassIndex(file[i][Len(file[i])]) <= ClassIndex(file[j][Len(file[j])])

\* the file ends with the whole batch of the latest scenario that wrote
EndsWithLastBatch ==
    last.branch = "written" =>
        LET rows == TimeseriesRows[last.file][last.classe].val
        IN /\ Len(out) >= Len(rows)
           /\ SubSeq(out, Len(out) - Len(rows) + 1, Len(out)) = rows

\* C10: during a run of build_dataset_timeseries the output file only grows:
\* each step leaves what was written in place, each write appends all
\* windows of one scenario contiguously in window order, and the batches
\* come in processing order (E1, E2, E3).
C10_AppendOnly ==
    [][Timeseries => /\ IsPrefix(out, out')
                     /\ EndsWithLastBatch'
                     /\ InClassOrder(out')]_vars

\* batches of E1 and E3 are in the file, the second of several windows
C10_Witness ==
    /\ Timeseries /\ last.branch = "written" /\ last.header_before
    /\ last.classe = "E3" /\ last.file = Plain(WINDOW_SIZE + STRIDE, 2)
    /\ out[2][Len(out[2])] = "E1"
    /\ Len(out) = 4

====
